---- MODULE Spec2Model ----
(***************************************************************************)
(* Model of the Tejas estimator API (src/app.py): the /estimate handler    *)
(* with its address cascade, the two regex parsers, the record assembly,   *)
(* the KMZ artifact written by generate_kmz and the /download_kmz handler. *)
(*                                                                         *)
(* Python strings that the code inspects character by character (the       *)
(* address, the legal description) are sequences of one-character strings. *)
(* Every Python str value is such a sequence; the field names and the      *)
(* endpoints of COUNTY_CONFIG, which the code only copies, are TLA+        *)
(* strings.                                                                *)
(***************************************************************************)
EXTENDS Integers, Sequences, FiniteSets, TLC

\* ------------------------------------------------------------------------
\* Characters and the str methods the code calls
\* ------------------------------------------------------------------------

UC == <<"A","B","C","D","E","F","G","H","I","J","K","L","M",
        "N","O","P","Q","R","S","T","U","V","W","X","Y","Z">>

LC == <<"a","b","c","d","e","f","g","h","i","j","k","l","m",
        "n","o","p","q","r","s","t","u","v","w","x","y","z">>

Digits == {"0","1","2","3","4","5","6","7","8","9"}

Range(f) == {f[i] : i \in DOMAIN f}

UpperLetters == Range(UC)

LowerLetters == Range(LC)

WordChars == UpperLetters \cup LowerLetters \cup Digits \cup {"_"}

ToUpper == [c \in LowerLetters |-> UC[CHOOSE i \in DOMAIN LC : LC[i] = c]]

ToLower == [c \in UpperLetters |-> LC[CHOOSE i \in DOMAIN UC : UC[i] = c]]

IsUpper(c) == c \in UpperLetters

IsLower(c) == c \in LowerLetters

IsCased(c) == IsUpper(c) \/ IsLower(c)

\* \d of the re module
IsDigit(c) == c \in Digits

\* \w of the re module
IsWord(c) == c \in WordChars

\* \s of the re module, and the characters str.strip() removes
SpaceChars == {" ", "\t", "\n"}

IsSpace(c) == c \in SpaceChars

UpperChar(c) == IF IsLower(c) THEN ToUpper[c] ELSE c

LowerChar(c) == IF IsUpper(c) THEN ToLower[c] ELSE c

\* str.upper()
Upper(s) == [i \in DOMAIN s |-> UpperChar(s[i])]

\* str.title(): a cased character is upper-cased when the character before it
\* is not cased, and lower-cased otherwise
Title(s) ==
    [i \in DOMAIN s |->
        IF i > 1 /\ IsCased(s[i - 1]) THEN LowerChar(s[i]) ELSE UpperChar(s[i])]

SetMin(S) == CHOOSE x \in S : \A y \in S : x <= y

SetMax(S) == CHOOSE x \in S : \A y \in S : x >= y

\* str.strip(chars): drop the leading and trailing characters that are in chars
StripChars(s, chars) ==
    LET keep == {i \in DOMAIN s : s[i] \notin chars}
    IN  IF keep = {} THEN <<>> ELSE SubSeq(s, SetMin(keep), SetMax(keep))

\* str.strip()
Strip(s) == StripChars(s, {" ", "\t", "\n"})

\* s[i+1 .. j] consists only of characters satisfying the class (empty allowed)
AllDigits(s, i, j) == \A p \in (i + 1)..j : IsDigit(s[p])

AllSpace(s, i, j) == \A p \in (i + 1)..j : IsSpace(s[p])

AllWordOrSpace(s, i, j) == \A p \in (i + 1)..j : IsWord(s[p]) \/ IsSpace(s[p])

\* the literal word w matches s at offset p (0-based), ignoring case
MatchesAt(s, p, w) ==
    /\ p + Len(w) <= Len(s)
    /\ \A q \in 1..Len(w) : UpperChar(s[p + q]) = w[q]

\* ------------------------------------------------------------------------
\* parse_address_loose
\* ------------------------------------------------------------------------

\* the alternation RD|ST|DR|LN|BLVD|CT|AVE|HWY|WAY|TRAIL|PKWY|CIR
StreetTypes ==
    { <<"R","D">>, <<"S","T">>, <<"D","R">>, <<"L","N">>, <<"B","L","V","D">>,
      <<"C","T">>, <<"A","V","E">>, <<"H","W","Y">>, <<"W","A","Y">>,
      <<"T","R","A","I","L">>, <<"P","K","W","Y">>, <<"C","I","R">> }

\* Python's None (and JSON null): a value that is no str, since every str of
\* the model is a sequence of one-character strings
None == <<"None">>

\* (\s+(TYPE))?$ taken at offset k: the rest of s is whitespace followed by
\* exactly one street type; the result is the offset where the type starts
TypeStarts(s, k) ==
    {m \in (k + 1)..Len(s) :
        /\ AllSpace(s, k, m)
        /\ \E t \in StreetTypes : Len(t) = Len(s) - m /\ MatchesAt(s, m, t)}

\* The matches of ^(\d+)?\s*([\w\s]+?)(\s+(TYPE))?$ on s, as <<i, j, k>>:
\* group 1 is s[1..i] (absent when i = 0), \s* is s[i+1..j], group 2 is
\* s[j+1..k], and the optional group 3 is the rest.
AddressMatches(s) ==
    UNION { UNION { { <<i, j, k>> : k \in {k \in (j + 1)..Len(s) :
                                            /\ AllWordOrSpace(s, j, k)
                                            /\ (k = Len(s) \/ TypeStarts(s, k) # {})} }
                    : j \in {j \in i..Len(s) : AllSpace(s, i, j)} }
            : i \in {i \in 0..Len(s) : AllDigits(s, 0, i)} }

\* The match the backtracking engine returns: the greedy (\d+)? takes the
\* longest number, the greedy \s* the longest run, the lazy [\w\s]+? the
\* shortest name.
FirstAddressMatch(M) ==
    LET i  == SetMax({c[1] : c \in M})
        j  == SetMax({c[2] : c \in {d \in M : d[1] = i}})
        k  == SetMin({c[3] : c \in {d \in M : d[1] = i /\ d[2] = j}})
    IN  <<i, j, k>>

parse_address_loose(address) ==
    LET s == Upper(Strip(address))
        M == AddressMatches(s)
    IN  IF M = {}
        THEN <<None, None, None>>
        ELSE LET c == FirstAddressMatch(M)
                 number  == SubSeq(s, 1, c[1])
                 name    == Strip(SubSeq(s, c[2] + 1, c[3]))
                 st_type == IF c[3] = Len(s) THEN <<>>
                            ELSE Strip(SubSeq(s, SetMin(TypeStarts(s, c[3])) + 1, Len(s)))
             IN  <<Strip(number), name, st_type>>

\* ------------------------------------------------------------------------
\* parse_legal_description
\* ------------------------------------------------------------------------

BLOCK == <<"B","L","O","C","K">>

LOT == <<"L","O","T">>

RESERVE == <<"R","E","S","E","R","V","E">>

ACRES == <<"A","C","R","E","S">>

\* ^(.*?)(BLOCK|LOT|RESERVE|ACRES): the offsets at which a keyword starts
\* with no newline before it ('.' does not match a newline)
SubdivisionEnds(legal) ==
    {p \in 0..Len(legal) :
        /\ \E w \in {BLOCK, LOT, RESERVE, ACRES} : MatchesAt(legal, p, w)
        /\ \A q \in 1..p : legal[q] # "\n"}

\* the end of the longest run of characters of the class that starts at
\* offset p
RunEnd(legal, p, class) ==
    SetMax({e \in p..Len(legal) : \A q \in (p + 1)..e : legal[q] \in class})

\* BLOCK\s+(\w+): the offsets p where it matches
BlockStarts(legal) ==
    {p \in 0..Len(legal) :
        /\ MatchesAt(legal, p, BLOCK)
        /\ LET a == RunEnd(legal, p + Len(BLOCK), SpaceChars)
           IN  \E b \in (p + Len(BLOCK) + 1)..a : b < Len(legal) /\ IsWord(legal[b + 1])}

\* the class ["\w]
LotChars == WordChars \cup {"\""}

IsLotChar(c) == c \in LotChars

\* (LOT|RESERVE)\s+["\w]+ : the offsets p where it matches with keyword w
LotMatchesAt(legal, p, w) ==
    /\ MatchesAt(legal, p, w)
    /\ LET a == RunEnd(legal, p + Len(w), SpaceChars)
       IN  \E b \in (p + Len(w) + 1)..a : b < Len(legal) /\ IsLotChar(legal[b + 1])

LotStarts(legal) ==
    {p \in 0..Len(legal) : LotMatchesAt(legal, p, LOT) \/ LotMatchesAt(legal, p, RESERVE)}

\* \s+ is greedy but gives characters back when the class after it needs one;
\* a whitespace character is in neither \w nor ["\w], so the class starts
\* right after the whole whitespace run
\* ParseSubdivision without the .title() call
ParseSubdivision_NoTitle(legal) ==
    IF SubdivisionEnds(legal) = {} THEN None
    ELSE StripChars(SubSeq(legal, 1, SetMin(SubdivisionEnds(legal))), {",", " "})

ParseSubdivision(legal) ==
    IF SubdivisionEnds(legal) = {} THEN None
    ELSE Title(StripChars(SubSeq(legal, 1, SetMin(SubdivisionEnds(legal))), {",", " "}))

ParseBlock(legal) ==
    IF BlockStarts(legal) = {} THEN None
    ELSE LET p == SetMin(BlockStarts(legal))
             a == RunEnd(legal, p + Len(BLOCK), SpaceChars)
         IN  SubSeq(legal, a + 1, RunEnd(legal, a, WordChars))

ParseLot(legal) ==
    IF LotStarts(legal) = {} THEN None
    ELSE LET p == SetMin(LotStarts(legal))
             w == IF MatchesAt(legal, p, LOT) THEN LOT ELSE RESERVE
             a == RunEnd(legal, p + Len(w), SpaceChars)
         IN  Strip(SubSeq(legal, p + 1, RunEnd(legal, a, LotChars)))

parse_legal_description(legal) ==
    <<ParseSubdivision(legal), ParseBlock(legal), ParseLot(legal)>>

\* ------------------------------------------------------------------------
\* String literals of the inputs, written as character sequences
\* ------------------------------------------------------------------------

\* "Main"
ADDR_MAIN == <<"M","a","i","n">>

\* "1234 Main St"
ADDR_1234_MAIN_ST == <<"1","2","3","4"," ","M","a","i","n"," ","S","t">>

\* "1234 Main"
ADDR_1234_MAIN == <<"1","2","3","4"," ","M","a","i","n">>

\* "Main St"
ADDR_MAIN_ST == <<"M","a","i","n"," ","S","t">>

\* "1234 Oak Grove Rd"
ADDR_1234_OAK_GROVE_RD == <<"1","2","3","4"," ","O","a","k"," ","G","r","o","v","e"," ","R","d">>

\* "#5"
ADDR_HASH5 == <<"#","5">>

\* "Harris"
ARG_HARRIS_MIXED == <<"H","a","r","r","i","s">>

\* "travis"
ARG_TRAVIS == <<"t","r","a","v","i","s">>

\* "R1"
ARG_R1 == <<"R","1">>

\* "ABC ESTATES, BLOCK 3, LOT 7"
LEGAL_ABC == <<"A","B","C"," ","E","S","T","A","T","E","S",","," ","B","L","O","C","K"," ","3",","," ","L","O","T"," ","7">>

\* "UNRESTRICTED RESERVE A"
LEGAL_UNRESTRICTED == <<"U","N","R","E","S","T","R","I","C","T","E","D"," ","R","E","S","E","R","V","E"," ","A">>

\* "N/A"
NA == <<"N","/","A">>

\* "1234"
VAL_1234 == <<"1","2","3","4">>

\* "MAIN"
VAL_MAIN == <<"M","A","I","N">>

\* "ST"
VAL_ST == <<"S","T">>

\* "D1"
VAL_D1 == <<"D","1">>

\* "P1"
VAL_P1 == <<"P","1">>

\* "0.5"
VAL_ACRES == <<"0",".","5">>

\* "100"
VAL_MARKET == <<"1","0","0">>

\* "SMITH"
VAL_SMITH == <<"S","M","I","T","H">>

\* "JONES"
VAL_JONES == <<"J","O","N","E","S">>

\* ------------------------------------------------------------------------
\* COUNTY_CONFIG
\* ------------------------------------------------------------------------

fortbend == <<"f","o","r","t","b","e","n","d">>

harris == <<"h","a","r","r","i","s">>

CanonicalFields ==
    {"street_num", "street_name", "street_type", "owner", "legal", "deed",
     "parcel_id", "quickrefid", "acres", "market"}

FortBendConfig ==
    [endpoint |-> "https://gisweb.fbcad.org/arcgis/rest/services/Hosted/FBCAD_Public_Data/FeatureServer/0/query",
     fields |-> [street_num |-> "situssno", street_name |-> "situssnm",
                 street_type |-> "situsstp", owner |-> "ownername",
                 legal |-> "legal", deed |-> "instrunum",
                 parcel_id |-> "propnumber", quickrefid |-> "quickrefid",
                 acres |-> "landsizeac", market |-> "totalvalue"]]

HarrisConfig ==
    [endpoint |-> "https://services.arcgis.com/su8ic9KbA7PYVxPS/ArcGIS/rest/services/Harris_County_Parcels/FeatureServer/1/query",
     fields |-> [street_num |-> "site_str_num", street_name |-> "site_str_name",
                 street_type |-> "site_str_sfx", owner |-> "owner_name_1",
                 legal |-> "legal_desc", deed |-> "deed_ref",
                 parcel_id |-> "HCAD_NUM", quickrefid |-> "LOWPARCELID",
                 acres |-> "Acreage", market |-> "MKT_VAL"]]

Counties == {fortbend, harris}

COUNTY_CONFIG == [c \in Counties |-> IF c = fortbend THEN FortBendConfig ELSE HarrisConfig]

\* ------------------------------------------------------------------------
\* Request arguments (request.args.get returns None for an absent argument)
\* ------------------------------------------------------------------------

AddressArgs ==
    { None, <<>>,
      ADDR_MAIN,
      ADDR_1234_MAIN_ST,
      ADDR_1234_MAIN,
      ADDR_MAIN_ST,
      ADDR_1234_OAK_GROVE_RD,
      ADDR_HASH5 } \cup StreetTypes

CountyArgs == { None, harris, ARG_HARRIS_MIXED, ARG_TRAVIS }

QuickrefArgs == { None, <<>>, ARG_R1 }

\* ------------------------------------------------------------------------
\* Bounds
\* ------------------------------------------------------------------------

\* requests served in one behaviour
MaxRequests == 2

\* ------------------------------------------------------------------------
\* The datastore: what a query to an endpoint can return
\* ------------------------------------------------------------------------

\* a key the feature's attribute record does not hold
Absent == <<"Absent">>

\* Attribute records by canonical field; the datastore holds them under the
\* native field names of the county whose endpoint is queried.
FullAttributes(legal, owner) ==
    [street_num |-> VAL_1234, street_name |-> VAL_MAIN, street_type |-> VAL_ST,
     owner |-> owner, legal |-> legal, deed |-> VAL_D1, parcel_id |-> VAL_P1,
     quickrefid |-> ARG_R1, acres |-> VAL_ACRES, market |-> VAL_MARKET]

AttributeRecords ==
    << FullAttributes(LEGAL_ABC, VAL_SMITH),
       FullAttributes(LEGAL_UNRESTRICTED, VAL_JONES),
       [c \in CanonicalFields |-> Absent],
       FullAttributes(None, VAL_SMITH),
       [FullAttributes(LEGAL_ABC, None) EXCEPT !.deed = None, !.acres = Absent] >>

\* feature n in the schema of a county: a GeoJSON feature
Feature(n, fields) ==
    LET a    == AttributeRecords[n]
        keys == {c \in CanonicalFields : a[c] # Absent}
    IN  [id |-> n,
         properties |-> [k \in {fields[c] : c \in keys} |->
                            a[CHOOSE c \in keys : fields[c] = k]],
         geometry |-> IF n = 2 THEN "MultiPolygon" ELSE "Polygon"]

\* the "features" lists of the responses, by feature number
FeatureLists ==
    {<<>>} \cup {<<n>> : n \in DOMAIN AttributeRecords}
           \cup {<<1, 2>>, <<2, 1>>, <<3, 1>>, <<4, 2>>, <<5, 4>>}

\* r.json().get("features", []) of a successful response of the endpoint
\* that holds the features l
Response(endpoint, l) ==
    LET c == CHOOSE c \in Counties : COUNTY_CONFIG[c].endpoint = endpoint
    IN  [i \in DOMAIN l |-> Feature(l[i], COUNTY_CONFIG[c].fields)]

\* ------------------------------------------------------------------------
\* Helpers of the estimate handler
\* ------------------------------------------------------------------------

\* Python truthiness of a str or None
Truthy(v) == v # None /\ v # <<>>

\* str.lower()
Lower(s) == [i \in DOMAIN s |-> LowerChar(s[i])]

\* request.args.get("county", "fortbend").lower()
CountyOf(countyArg) == Lower(IF countyArg = None THEN fortbend ELSE countyArg)

\* dict.get(key, default)
DictGet(d, key, default) == IF key \in DOMAIN d THEN d[key] ELSE default

\* str() of a value inside an f-string
Str(v) == IF v = None THEN <<"N","o","n","e">> ELSE v

\* FieldKey with the native names of one county written into the handler
FieldKey_Hardcoded(fields, canonical) == FortBendConfig.fields[canonical]

\* fields['<canonical>']: the native name of a canonical field
FieldKey(fields, canonical) == fields[canonical]

\* one comparison of a where clause
Cond(field, op, value) == [field |-> field, op |-> op, value |-> value]

\* f"{fields['quickrefid']} = '{quickref}'"
QuickrefClause(fields, quickref) == <<Cond(FieldKey(fields, "quickrefid"), "=", quickref)>>

\* the f-strings of the three cascade tiers
Tier1Clause(fields, number, name, st_type) ==
    << Cond(FieldKey(fields, "street_num"), "=", number),
       Cond(FieldKey(fields, "street_name"), "UPPER LIKE", Upper(name)),
       Cond(FieldKey(fields, "street_type"), "UPPER =", Upper(st_type)) >>

Tier2Clause(fields, number, name) ==
    << Cond(FieldKey(fields, "street_num"), "=", number),
       Cond(FieldKey(fields, "street_name"), "UPPER LIKE", Upper(name)) >>

Tier3Clause(fields, name) ==
    << Cond(FieldKey(fields, "street_name"), "UPPER LIKE", Upper(name)) >>

\* BuildClauses with the tiers appended loosest first
BuildClauses_LoosestFirst(fields, number, name, st_type) ==
    <<Tier3Clause(fields, name)>>
    \o (IF Truthy(number) THEN <<Tier2Clause(fields, number, name)>> ELSE <<>>)
    \o (IF Truthy(number) /\ Truthy(st_type)
           THEN <<Tier1Clause(fields, number, name, st_type)>> ELSE <<>>)

\* the clauses list of the address branch
BuildClauses(fields, number, name, st_type) ==
    (IF Truthy(number) /\ Truthy(st_type)
        THEN <<Tier1Clause(fields, number, name, st_type)>> ELSE <<>>)
    \o (IF Truthy(number) THEN <<Tier2Clause(fields, number, name)>> ELSE <<>>)
    \o <<Tier3Clause(fields, name)>>

\* ConfigFor falling back to the default county: COUNTY_CONFIG.get(c, ...)
ConfigFor_Default(c) ==
    <<IF c \in DOMAIN COUNTY_CONFIG THEN COUNTY_CONFIG[c] ELSE COUNTY_CONFIG[fortbend]>>

\* lines 113-118: the configuration of the county, <<>> when the county is
\* not in COUNTY_CONFIG
ConfigFor(c) == IF c \in DOMAIN COUNTY_CONFIG THEN <<COUNTY_CONFIG[c]>> ELSE <<>>

\* line 110: the request names a parcel
HasSelector(address, quickref) == Truthy(address) \/ Truthy(quickref)

\* UseQuickref with the branches swapped: "if address: ... elif quickref:"
UseQuickref_AddressFirst(address, quickref) == ~Truthy(address) /\ Truthy(quickref)

\* line 122: the quickref branch is taken, whatever the address
UseQuickref(address, quickref) == Truthy(quickref)

\* SelectFeature taking the last feature: matches[-1]
SelectFeature_Last(matches) == matches[Len(matches)]

\* the feature the record is built from
SelectFeature(matches) == matches[1]

\* props.get(fields[canonical], default)
ReadField(props, fields, canonical, default) ==
    DictGet(props, FieldKey(fields, canonical), default)

\* the keys of the attribute record the assembly reads
KeysRead(fields) == {FieldKey(fields, c) : c \in CanonicalFields}

\* re.match(pattern, None) in parse_legal_description raises TypeError
AssemblyRaises(props, fields) == ReadField(props, fields, "legal", NA) = None

\* the JSON body of a successful estimate (the geometry figures left out)
Assemble(props, fields) ==
    LET legal == ReadField(props, fields, "legal", NA)
        parts == parse_legal_description(legal)
    IN      [owner |-> ReadField(props, fields, "owner", NA),
                  address |-> Strip(Str(ReadField(props, fields, "street_num", <<>>))
                                    \o <<" ">> \o Str(ReadField(props, fields, "street_name", <<>>))
                                    \o <<" ">> \o Str(ReadField(props, fields, "street_type", <<>>))),
                  legal_description |-> legal,
                  subdivision |-> parts[1],
                  block |-> parts[2],
                  lot_reserve |-> parts[3],
                  deed |-> ReadField(props, fields, "deed", <<>>),
                  called_acreage |-> ReadField(props, fields, "acres", NA),
                  market_value |-> ReadField(props, fields, "market", NA),
                  quickrefid |-> ReadField(props, fields, "quickrefid", <<>>),
                  parcel_id |-> ReadField(props, fields, "parcel_id", <<>>)]

\* ------------------------------------------------------------------------
\* The file system under /tmp
\* ------------------------------------------------------------------------

\* temp_kmz_path of download_kmz
FixedPath == <<"/tmp/parcel", 0, ".kmz">>

\* tempfile.NamedTemporaryFile(delete=False, suffix=".kmz").name: a path that
\* did not exist, /tmp/tmp<random>.kmz (the random part is a number >= 1)
TempPath(existing) == <<"/tmp/tmp", Cardinality(existing) + 1, ".kmz">>

\* the path generate_kmz saves the KMZ to
KmzPath(existing) == TempPath(existing)

\* ------------------------------------------------------------------------
\* State
\* ------------------------------------------------------------------------

VARIABLES
    pc,         \* "idle", "querying" (inside requests.get), "done" (response sent)
    request,    \* the arguments of the request being handled
    county,     \* local county of estimate
    parsed,     \* <<number, name, st_type>> once parse_address_loose was called, else <<>>
    clauses,    \* the where clauses the handler is going through
    issued,     \* the datastore queries of this request, in order, with their results
    feature,    \* local feature of estimate: <<>> until assigned, then <<matches[0]>>
    outcome,    \* the response of the request; its body is <<>> or <<the JSON object>>
    reads,      \* the attribute keys the assembly looked up
    files,      \* the KMZ files under /tmp: path -> the request that generated it
    served,     \* number of estimate requests received
    lastKmz,    \* the request of the last generated artifact (0: none)
    download    \* the response of the last download_kmz request

vars == <<pc, request, county, parsed, clauses, issued, feature, outcome, reads,
          files, served, lastKmz, download>>

locals == <<request, county, parsed, clauses, issued, feature, outcome, reads>>

NoRequest == [address |-> None, county |-> None, quickref |-> None]

NoOutcome == [kind |-> "none", status |-> 0, body |-> <<>>]

Failure(kind, status) == [kind |-> kind, status |-> status, body |-> <<>>]

Init ==
    /\ pc = "idle"
    /\ request = NoRequest
    /\ county = None
    /\ parsed = <<>>
    /\ clauses = <<>>
    /\ issued = <<>>
    /\ feature = <<>>
    /\ outcome = NoOutcome
    /\ reads = {}
    /\ files = <<>>
    /\ served = 0
    /\ lastKmz = 0
    /\ download = NoOutcome

\* query_parcels called: the request is sent
Query(endpoint, where) == [endpoint |-> endpoint, where |-> where, result |-> "pending", features |-> <<>>]

\* ------------------------------------------------------------------------
\* estimate, up to its first datastore query
\* ------------------------------------------------------------------------

Reject(req, c) ==
    /\ pc' = "done"
    /\ request' = req
    /\ county' = c
    /\ outcome' = Failure("InvalidInput", 400)
    /\ UNCHANGED <<clauses, issued, feature, reads>>

Estimate(address, countyArg, quickref) ==
    LET req == [address |-> address, county |-> countyArg, quickref |-> quickref]
        c   == CountyOf(countyArg)
    IN
    /\ pc = "idle"
    /\ served < MaxRequests
    /\ served' = served + 1
    /\ UNCHANGED <<files, lastKmz, download>>
    /\ IF ~HasSelector(address, quickref)
       THEN Reject(req, c) /\ parsed' = <<>>
       ELSE IF ConfigFor(c) = <<>>
       THEN Reject(req, c) /\ parsed' = <<>>
       ELSE LET config == ConfigFor(c)[1] IN
            IF UseQuickref(address, quickref)
            THEN /\ pc' = "querying"
                 /\ request' = req
                 /\ county' = c
                 /\ parsed' = <<>>
                 /\ clauses' = <<QuickrefClause(config.fields, quickref)>>
                 /\ issued' = <<Query(config.endpoint, clauses'[1])>>
                 /\ UNCHANGED <<feature, outcome, reads>>
            ELSE LET p == parse_address_loose(address) IN
                 IF ~Truthy(p[2])
                 THEN Reject(req, c) /\ parsed' = p
                 ELSE /\ pc' = "querying"
                      /\ request' = req
                      /\ county' = c
                      /\ parsed' = p
                      /\ clauses' = BuildClauses(config.fields, p[1], p[2], p[3])
                      /\ issued' = <<Query(config.endpoint, clauses'[1])>>
                      /\ UNCHANGED <<feature, outcome, reads>>

\* ------------------------------------------------------------------------
\* query_parcels returns or raises, and estimate runs on
\* ------------------------------------------------------------------------

Answered(result, features) ==
    [issued EXCEPT ![Len(issued)].result = result, ![Len(issued)].features = features]

\* the loop goes to its next clause after an empty result
MoreClauses(matches) == matches = <<>> /\ Len(issued) < Len(clauses)

\* QueryRaises with the exception caught inside the loop ("except: continue"):
\* the failed query counts as an empty result
QueryRaises_Swallowed ==
    /\ pc = "querying"
    /\ UNCHANGED <<request, county, parsed, clauses, feature, reads,
                   files, served, lastKmz, download>>
    /\ IF MoreClauses(<<>>)
       THEN /\ pc' = "querying"
            /\ issued' = Append(Answered("error", <<>>),
                                Query(ConfigFor(county)[1].endpoint, clauses[Len(issued) + 1]))
            /\ UNCHANGED outcome
       ELSE /\ pc' = "done"
            /\ issued' = Answered("error", <<>>)
            /\ outcome' = Failure("NotFound", 404)

\* r.raise_for_status() (or requests.get itself) raises: the exception leaves
\* estimate, and Flask answers 500
QueryRaises ==
    /\ pc = "querying"
    /\ pc' = "done"
    /\ issued' = Answered("error", <<>>)
    /\ outcome' = Failure("DatastoreUnavailable", 500)
    /\ UNCHANGED <<request, county, parsed, clauses, feature, reads,
                   files, served, lastKmz, download>>

\* lines 142-143
NotFound ==
    /\ outcome' = Failure("NotFound", 404)
    /\ UNCHANGED <<feature, reads, files, lastKmz>>

\* lines 145-202: the record, the KMZ file and the response
Respond(matches) ==
    LET config == ConfigFor(county)[1]
        f      == SelectFeature(matches)
    IN  /\ feature' = <<f>>
        /\ IF AssemblyRaises(f.properties, config.fields)
           THEN /\ reads' = {FieldKey(config.fields, "legal")}
                /\ outcome' = Failure("InternalError", 500)
                /\ UNCHANGED <<files, lastKmz>>
           ELSE /\ reads' = KeysRead(config.fields)
                /\ outcome' = [kind |-> "Record", status |-> 200,
                                body |-> <<Assemble(f.properties, config.fields)>>]
                /\ files' = [p \in DOMAIN files \cup {KmzPath(DOMAIN files)} |->
                                IF p = KmzPath(DOMAIN files) THEN served ELSE files[p]]
                /\ lastKmz' = served

QueryReturns(l) ==
    /\ pc = "querying"
    /\ UNCHANGED <<request, county, parsed, clauses, served, download>>
    /\ LET matches == Response(issued[Len(issued)].endpoint, l) IN
       IF MoreClauses(matches)
       THEN /\ pc' = "querying"
            /\ issued' = Append(Answered("empty", <<>>),
                                Query(ConfigFor(county)[1].endpoint, clauses[Len(issued) + 1]))
            /\ UNCHANGED <<feature, outcome, reads, files, lastKmz>>
       ELSE /\ pc' = "done"
            /\ issued' = Answered(IF matches = <<>> THEN "empty" ELSE "features", matches)
            /\ IF matches = <<>> THEN NotFound ELSE Respond(matches)

\* estimate has returned: its locals are gone
Return ==
    /\ pc = "done"
    /\ pc' = "idle"
    /\ request' = NoRequest
    /\ county' = None
    /\ parsed' = <<>>
    /\ clauses' = <<>>
    /\ issued' = <<>>
    /\ feature' = <<>>
    /\ outcome' = NoOutcome
    /\ reads' = {}
    /\ UNCHANGED <<files, served, lastKmz, download>>

\* ------------------------------------------------------------------------
\* download_kmz
\* ------------------------------------------------------------------------

\* A request of its own: it is answered whatever estimate is doing
DownloadKmz ==
    /\ download' = IF FixedPath \in DOMAIN files
                   THEN [kind |-> "File", status |-> 200, body |-> <<files[FixedPath]>>]
                   ELSE Failure("KMZ not found", 404)
    /\ UNCHANGED <<pc, locals, files, served, lastKmz>>

Next ==
    \/ \E a \in AddressArgs, c \in CountyArgs, q \in QuickrefArgs : Estimate(a, c, q)
    \/ QueryRaises
    \/ \E l \in FeatureLists : QueryReturns(l)
    \/ Return
    \/ DownloadKmz

Spec == Init /\ [][Next]_vars

\* ------------------------------------------------------------------------
\* Vocabulary of the properties
\* ------------------------------------------------------------------------

\* the canonical fields a where clause filters on, under a field dictionary
CanonicalOfClause(where, fields) ==
    {c \in CanonicalFields : \E i \in DOMAIN where : where[i].field = fields[c]}

\* the tier of a cascade clause: 1 filters on number, name and type, 2 on
\* number and name, 3 on the name alone; 0 is no cascade clause
TierOf(where, fields) ==
    LET cs == CanonicalOfClause(where, fields)
    IN  IF Len(where) = 3 /\ cs = {"street_num", "street_name", "street_type"} THEN 1
        ELSE IF Len(where) = 2 /\ cs = {"street_num", "street_name"} THEN 2
        ELSE IF Len(where) = 1 /\ cs = {"street_name"} THEN 3
        ELSE 0

\* the tiers that apply to a parsed address, in the fixed order
ApplicableTiers(number, st_type) ==
    IF number # <<>> /\ st_type # <<>> THEN <<1, 2, 3>>
    ELSE IF number # <<>> THEN <<2, 3>>
    ELSE <<3>>

\* the handler parsed the address of the request and got a street name
AddressParsed == parsed # <<>> /\ parsed[2] # None /\ parsed[2] # <<>>

\* the county the request selects is configured
CountySupported == CountyOf(request.county) \in Counties

\* the native field names of a county
NativeNames(c) == {COUNTY_CONFIG[c].fields[f] : f \in CanonicalFields}

\* the queries of the request that returned at least one feature
NonEmptyQueries == {i \in DOMAIN issued : issued[i].features # <<>>}

\* ------------------------------------------------------------------------
\* C1
\* ------------------------------------------------------------------------

\* C1: once the handler has parsed an address into a street name, the queries
\* it has issued are a non-empty prefix of the applicable tiers in the order
\* 1, 2, 3 (tier 1 only with number and type, tier 2 only with a number,
\* tier 3 always); every query before the last one returned an empty result,
\* so no tier follows a tier that returned a feature or failed.  "1234 Main
\* St" starts with tier 1, and "Main" issues the tier 3 query and no other.
C1_CascadeOrder ==
    AddressParsed =>
        LET tiers  == ApplicableTiers(parsed[1], parsed[3])
            fields == COUNTY_CONFIG[county].fields
        IN  /\ Len(issued) >= 1
            /\ Len(issued) <= Len(tiers)
            /\ \A i \in DOMAIN issued : TierOf(issued[i].where, fields) = tiers[i]
            /\ \A i \in 1..(Len(issued) - 1) : issued[i].result = "empty"
            /\ (request.address = ADDR_1234_MAIN_ST => TierOf(issued[1].where, fields) = 1)
            /\ (request.address = ADDR_MAIN =>
                    Len(issued) = 1 /\ TierOf(issued[1].where, fields) = 3)

\* "1234 Main St" went through tiers 1 and 2 empty and matched on tier 3
C1_Witness ==
    /\ pc = "done"
    /\ request.address = ADDR_1234_MAIN_ST
    /\ Len(issued) = 3
    /\ issued[1].result = "empty" /\ issued[2].result = "empty"
    /\ issued[3].result = "features"

\* ------------------------------------------------------------------------
\* C2
\* ------------------------------------------------------------------------

\* the one query of a quickref request: an exact match on the county's
\* quickrefid field, and no address parsed
QuickrefLookupOnly ==
    /\ Len(issued) = 1
    /\ Len(issued[1].where) = 1
    /\ issued[1].where[1].op = "="
    /\ issued[1].where[1].value = request.quickref
    /\ parsed = <<>>

\* C2 as stated: every handled request with a non-empty quickref has issued
\* exactly one query, the exact match on quickrefid, and no cascade clause.
C2_Original ==
    (pc # "idle" /\ Truthy(request.quickref)) => QuickrefLookupOnly

\* C2 amended: every handled request with a non-empty quickref and a
\* configured county has issued exactly one query, the exact match on the
\* county's quickrefid field, and no cascade clause, whether the lookup
\* returned features, was empty or failed, and also when an address came
\* with it.
C2_QuickrefSingleLookup ==
    (pc # "idle" /\ Truthy(request.quickref) /\ CountySupported) =>
        /\ QuickrefLookupOnly
        /\ issued[1].where[1].field = COUNTY_CONFIG[county].fields["quickrefid"]
        /\ TierOf(issued[1].where, COUNTY_CONFIG[county].fields) = 0

\* a request with a quickref and an address ended NotFound after its lookup
C2_Witness ==
    /\ pc = "done"
    /\ Truthy(request.quickref)
    /\ request.address = ADDR_1234_MAIN_ST
    /\ Len(issued) = 1
    /\ issued[1].result = "empty"
    /\ outcome.kind = "NotFound"

\* ------------------------------------------------------------------------
\* C3
\* ------------------------------------------------------------------------

\* C3: a failed query is the last query of its request: the request is over
\* with the DatastoreUnavailable failure, without a record and without a
\* selected feature; DatastoreUnavailable is the outcome of nothing else; and
\* every query that was followed by another one returned an empty result.
C3_FailureAborts ==
    /\ \A i \in DOMAIN issued :
            issued[i].result = "error" =>
                /\ i = Len(issued)
                /\ pc = "done"
                /\ outcome.kind = "DatastoreUnavailable"
                /\ outcome.body = <<>>
                /\ feature = <<>>
                /\ \A j \in 1..(i - 1) : issued[j].where # issued[i].where
    /\ (outcome.kind = "DatastoreUnavailable" =>
            issued # <<>> /\ issued[Len(issued)].result = "error")
    /\ \A i \in 1..(Len(issued) - 1) : issued[i].result = "empty"

\* the second of three clauses failed after the first returned empty
C3_Witness ==
    /\ pc = "done"
    /\ Len(clauses) = 3
    /\ Len(issued) = 2
    /\ issued[1].result = "empty"
    /\ issued[2].result = "error"
    /\ outcome.kind = "DatastoreUnavailable"

\* ------------------------------------------------------------------------
\* C4
\* ------------------------------------------------------------------------

\* C4: a request that ends in InvalidInput has issued no query, and each of
\* the three causes ends in InvalidInput: no address and no quickref, a
\* county outside COUNTY_CONFIG (whatever the selector), and an address
\* without a quickref from which no street name is parsed.
C4_InvalidInputNoQuery ==
    /\ (outcome.kind = "InvalidInput" => issued = <<>> /\ pc = "done")
    /\ (pc # "idle" =>
          /\ (~Truthy(request.address) /\ ~Truthy(request.quickref) =>
                    outcome.kind = "InvalidInput")
          /\ (~CountySupported => outcome.kind = "InvalidInput")
          /\ (parsed # <<>> /\ ~AddressParsed => outcome.kind = "InvalidInput"))

\* an unsupported county with both selectors given
C4_Witness ==
    /\ pc = "done"
    /\ request.county = ARG_TRAVIS
    /\ request.quickref = ARG_R1
    /\ request.address = ADDR_1234_MAIN_ST
    /\ outcome.kind = "InvalidInput"

\* ------------------------------------------------------------------------
\* C5
\* ------------------------------------------------------------------------

\* C5: when a valid request is over and none of its queries failed, its
\* outcome is NotFound (404) exactly if every query it issued returned no
\* feature, and then every clause was issued; otherwise the feature it
\* selected is the first feature of the first non-empty result, and a record
\* it returns is the record of that feature.  NotFound differs from
\* InvalidInput (400) and DatastoreUnavailable (500).
C5_NotFoundIffAllEmpty ==
    (pc = "done" /\ outcome.kind \notin {"InvalidInput", "DatastoreUnavailable"}) =>
        /\ issued # <<>>
        /\ (outcome.kind = "NotFound" <=> NonEmptyQueries = {})
        /\ (outcome.kind = "NotFound" <=> outcome.status = 404)
        /\ (outcome.kind = "NotFound" =>
                Len(issued) = Len(clauses) /\ feature = <<>> /\ outcome.body = <<>>)
        /\ (outcome.kind # "NotFound" =>
                LET first == issued[SetMin(NonEmptyQueries)].features[1]
                IN  /\ feature = <<first>>
                    /\ (outcome.kind = "Record" =>
                            outcome.body = <<Assemble(first.properties,
                                                      COUNTY_CONFIG[county].fields)>>))

\* the second query returned two features after an empty first one
C5_Witness ==
    /\ pc = "done"
    /\ Len(issued) = 2
    /\ issued[1].result = "empty"
    /\ Len(issued[2].features) = 2
    /\ outcome.kind = "Record"

\* ------------------------------------------------------------------------
\* C6
\* ------------------------------------------------------------------------

\* C6: once an estimate has generated an artifact, the file at the fixed
\* location download_kmz reads exists and is the last generated artifact.
C6_LastArtifactAtFixedPath ==
    lastKmz # 0 =>
        /\ FixedPath \in DOMAIN files
        /\ files[FixedPath] = lastKmz

\* ------------------------------------------------------------------------
\* C7
\* ------------------------------------------------------------------------

\* C7: in a request with a configured county, the selected configuration is
\* the one of the requested key; every query goes to its endpoint and filters
\* on its native field names only, and every attribute key read is one of
\* its native names; nothing of the other county is used.
C7_JurisdictionIsolation ==
    (pc # "idle" /\ CountySupported) =>
        /\ county = CountyOf(request.county)
        /\ \A i \in DOMAIN issued :
              /\ issued[i].endpoint = COUNTY_CONFIG[county].endpoint
              /\ \A k \in DOMAIN issued[i].where :
                    issued[i].where[k].field \in NativeNames(county)
        /\ reads \subseteq NativeNames(county)
        /\ \A o \in Counties \ {county} :
              /\ \A i \in DOMAIN issued :
                    /\ issued[i].endpoint # COUNTY_CONFIG[o].endpoint
                    /\ \A k \in DOMAIN issued[i].where :
                          issued[i].where[k].field \notin NativeNames(o)
              /\ reads \cap NativeNames(o) = {}

\* a "Harris" request returned a record after three queries
C7_Witness ==
    /\ pc = "done"
    /\ request.county = ARG_HARRIS_MIXED
    /\ county = harris
    /\ Len(issued) = 3
    /\ outcome.kind = "Record"
    /\ reads # {}

\* ------------------------------------------------------------------------
\* C8
\* ------------------------------------------------------------------------

\* "Unrestricted"
STR_Unrestricted == <<"U","n","r","e","s","t","r","i","c","t","e","d">>

\* "RESERVE A"
STR_RESERVE_A == <<"R","E","S","E","R","V","E"," ","A">>

\* a record was returned for a feature whose legal text is
\* "UNRESTRICTED RESERVE A"
UnrestrictedRecord ==
    /\ outcome.kind = "Record"
    /\ outcome.body[1].legal_description = LEGAL_UNRESTRICTED

\* C8 as stated: parse_legal_description("UNRESTRICTED RESERVE A") gives
\* subdivision None, block None and lot "RESERVE A".
C8_Original ==
    UnrestrictedRecord =>
        /\ outcome.body[1].subdivision = None
        /\ outcome.body[1].block = None
        /\ outcome.body[1].lot_reserve = STR_RESERVE_A

\* C8 amended: parse_legal_description("UNRESTRICTED RESERVE A") gives
\* subdivision "Unrestricted" (the text before the first keyword, RESERVE),
\* block None and lot "RESERVE A".
C8_UnrestrictedReserveA ==
    UnrestrictedRecord =>
        /\ outcome.body[1].subdivision = STR_Unrestricted
        /\ outcome.body[1].block = None
        /\ outcome.body[1].lot_reserve = STR_RESERVE_A

C8_Witness == UnrestrictedRecord /\ pc = "done"

\* ------------------------------------------------------------------------
\* C9
\* ------------------------------------------------------------------------

\* the address is empty or only a street-type token
NoStreetName(address) ==
    address # None /\ (Strip(address) = <<>> \/ Upper(Strip(address)) \in StreetTypes)

\* C9: a request that selects by such an address ends in InvalidInput
\* without a query, and the parser never returns the street type as the
\* street name.
C9_TypeOnlyFails ==
    (pc # "idle" /\ CountySupported /\ ~Truthy(request.quickref)
        /\ NoStreetName(request.address)) =>
            /\ outcome.kind = "InvalidInput"
            /\ issued = <<>>
            /\ (parsed # <<>> => parsed[2] \notin StreetTypes)

\* ------------------------------------------------------------------------
\* C10
\* ------------------------------------------------------------------------

\* the selected feature has no value for the canonical field
Missing(canonical) ==
    LET props == feature[1].properties
        key   == COUNTY_CONFIG[county].fields[canonical]
    IN  key \notin DOMAIN props \/ props[key] = None

\* C10: a request that selected a feature returns a record, and an owner or
\* a legal text without a value is "N/A" in it.
C10_MissingValuesDefault ==
    (pc = "done" /\ feature # <<>>) =>
        /\ outcome.kind = "Record"
        /\ (Missing("owner") => outcome.body[1].owner = NA)
        /\ (Missing("legal") => outcome.body[1].legal_description = NA)

====
